---- MODULE Spec2Model ----
(***************************************************************************)
(* Memoization primitives of front_5th_chapter1-3: shallowEquals,          *)
(* deepEquals, useRef, useMemo, useDeepMemo, memo, and the App component   *)
(* that consumes them.                                                     *)
(*                                                                         *)
(* JavaScript values are records [t, n, id, elems].  t is the kind of the  *)
(* value; n the number of a "num"; id the identity of an object or array   *)
(* (two containers are the same reference iff the whole records are equal, *)
(* so two structurally equal containers with different id are distinct     *)
(* references); elems the own enumerable properties in Object.keys order,  *)
(* each [k |-> key, v |-> value] (an array has the keys "0", "1", ...).    *)
(***************************************************************************)
EXTENDS Integers, Sequences, FiniteSets, TLC

VARIABLES
    eqA,        \* first argument of the equality call under test
    eqB,        \* second argument of the equality call under test
    eqRes,      \* [fn, res]: which comparator ran last and what it returned
    slots,      \* host state slot of every useRef call site: its cell, 0 before the first evaluation
    cells,      \* .current of every cell
    made,       \* per instance, how many values factory / createElement has produced
    wEquals,    \* the _equals argument the memo-wrapped component was created with
    last,       \* the most recent evaluation: its instance, argument, invocations, result
    app,        \* state of the App component (its useState slots)
    genCalls,   \* invocations of generateItems
    providers,  \* per context, the Provider above the calling component
    hookRes     \* per context hook, its last call: the Provider it ran under, its outcome

eqVars == <<eqA, eqB, eqRes>>
hookVars == <<slots, cells, made, wEquals, last>>
appVars == <<app, genCalls>>
ctxVars == <<providers, hookRes>>
vars == <<eqA, eqB, eqRes, slots, cells, made, wEquals, last, app, genCalls,
          providers, hookRes>>

----------------------------------------------------------------------------
(* Bounds of the input universes *)

MaxNum == 2         \* number leaves are 1..MaxNum
NumCopies == 2      \* distinct references per container structure
MaxCalls == 2       \* factory / createElement invocations per instance
MaxRenders == 6     \* renders of App
MaxNotifications == 2   \* notifications shown at once

----------------------------------------------------------------------------
(* JavaScript values *)

Num(n) == [t |-> "num", n |-> n, id |-> 0, elems |-> <<>>]
Null == [t |-> "null", n |-> 0, id |-> 0, elems |-> <<>>]
Undefined == [t |-> "undefined", n |-> 0, id |-> 0, elems |-> <<>>]
NaN == [t |-> "nan", n |-> 0, id |-> 0, elems |-> <<>>]
Obj(id, elems) == [t |-> "obj", n |-> 0, id |-> id, elems |-> elems]
Arr(id, vals) ==
    [t |-> "arr", n |-> 0, id |-> id,
     elems |-> [i \in 1..Len(vals) |-> [k |-> ToString(i - 1), v |-> vals[i]]]]
P(k, v) == [k |-> k, v |-> v]

\* typeof v === "object" (true of null as well, as in JavaScript)
TypeofObject(v) == v.t \in {"obj", "arr", "null"}

\* Array.isArray(v)
IsArray(v) == v.t = "arr"

\* a === b: same primitive (NaN is never equal to itself) or same reference
StrictEq(a, b) == a = b /\ a.t # "nan"

\* Object.keys(o)
Keys(o) == [i \in 1..Len(o.elems) |-> o.elems[i].k]

HasKey(o, k) == \E i \in 1..Len(o.elems) : o.elems[i].k = k

\* o[k]: the own property, undefined when the key is missing
Get(o, k) ==
    IF HasKey(o, k)
    THEN (CHOOSE e \in {o.elems[i] : i \in 1..Len(o.elems)} : e.k = k).v
    ELSE Undefined

\* JSON.stringify returns undefined (no string) for undefined
NoString == "undefined"

RECURSIVE JoinFrom(_, _)
\* parts.slice(i).join(",")
JoinFrom(parts, i) ==
    IF i > Len(parts) THEN ""
    ELSE IF i = Len(parts) THEN parts[i]
    ELSE parts[i] \o "," \o JoinFrom(parts, i + 1)

RECURSIVE Stringify(_)
\* JSON.stringify(v)
Stringify(v) ==
    CASE v.t = "num" -> ToString(v.n)
      [] v.t = "nan" -> "null"
      [] v.t = "null" -> "null"
      [] v.t = "undefined" -> NoString
      [] v.t = "arr" ->
            LET part(e) == IF Stringify(e.v) = NoString THEN "null"
                           ELSE Stringify(e.v)
                parts == [i \in 1..Len(v.elems) |-> part(v.elems[i])]
            IN  "[" \o JoinFrom(parts, 1) \o "]"
      [] v.t = "obj" ->
            LET kept == SelectSeq(v.elems, LAMBDA e : Stringify(e.v) # NoString)
                parts == [i \in 1..Len(kept) |->
                            "\"" \o kept[i].k \o "\":" \o Stringify(kept[i].v)]
            IN  "{" \o JoinFrom(parts, 1) \o "}"

----------------------------------------------------------------------------
(* EqualityComparators *)

\* A shallowEquals that stops after the reference check
ShallowEqualsByReference(objA, objB) == StrictEq(objA, objB)

\* A shallowEquals that compares the values of the keys structurally
ShallowEqualsDeepValues(objA, objB) ==
    IF StrictEq(objA, objB) THEN TRUE
    ELSE IF \/ objA.t = "null"
            \/ objB.t = "null"
            \/ ~TypeofObject(objA)
            \/ ~TypeofObject(objB)
    THEN FALSE
    ELSE IF Len(Keys(objA)) # Len(Keys(objB)) THEN FALSE
    ELSE \A i \in 1..Len(objA.elems) :
            Stringify(Get(objA, objA.elems[i].k))
                = Stringify(Get(objB, objA.elems[i].k))

ShallowEquals(objA, objB) ==
    IF StrictEq(objA, objB) THEN TRUE
    ELSE IF \/ objA.t = "null"
            \/ objB.t = "null"
            \/ ~TypeofObject(objA)
            \/ ~TypeofObject(objB)
    THEN FALSE
    ELSE LET keysA == Keys(objA)
             keysB == Keys(objB)
         IN  IF Len(keysA) # Len(keysB) THEN FALSE
             ELSE \A i \in 1..Len(keysA) :
                    StrictEq(Get(objA, keysA[i]), Get(objB, keysA[i]))

RECURSIVE DeepEquals(_, _)
DeepEquals(objA, objB) ==
    IF Stringify(objA) = Stringify(objB) THEN TRUE
    ELSE IF \/ objA.t = "null"
            \/ objB.t = "null"
            \/ ~TypeofObject(objA)
            \/ ~TypeofObject(objB)
    THEN FALSE
    ELSE IF IsArray(objA) /\ IsArray(objB)
    THEN IF Len(objA.elems) # Len(objB.elems) THEN FALSE
         ELSE \A i \in 1..Len(objA.elems) :
                DeepEquals(objA.elems[i].v, Get(objB, ToString(i - 1)))
    ELSE \A i \in 1..Len(objA.elems) :
            DeepEquals(objA.elems[i].v, Get(objB, objA.elems[i].k))

----------------------------------------------------------------------------
(* Input universe of the comparators *)

Leaves == {Num(n) : n \in 1..MaxNum} \cup {Null, Undefined, NaN}
PropKeys == {"x", "y"}
CopyIds == 1..NumCopies

\* sequences of length at most w over S
SeqsUpTo(S, w) == UNION {[1..n -> S] : n \in 0..w}

\* key lists without a repeated key
KeyLists(w) ==
    {ks \in SeqsUpTo(PropKeys, w) :
        \A i, j \in 1..Len(ks) : i # j => ks[i] # ks[j]}

\* every plain object of at most w properties with values in E
Objects(E, w, ids) ==
    UNION {{Obj(id, [i \in 1..Len(ks) |-> P(ks[i], vs[i])]) :
                id \in ids, vs \in [1..Len(ks) -> E]} : ks \in KeyLists(w)}

\* every array of at most w elements with values in E
Arrays(E, w, ids) == {Arr(id, vs) : id \in ids, vs \in SeqsUpTo(E, w)}

NumLeaves == {Num(n) : n \in 1..MaxNum}

\* flat containers over every kind of leaf
Flat == Objects(Leaves, 2, CopyIds) \cup Arrays(Leaves, 2, CopyIds)

\* small containers that are nested in others
Inner == Objects(NumLeaves, 1, CopyIds) \cup Arrays(NumLeaves, 1, CopyIds)

\* containers holding one inner container
Nested == Objects(Inner, 1, {1}) \cup Arrays(Inner, 1, {1})

\* [n, {k: m}], and an object holding it, as in {x: [1, {y: 2}]}
Mixed == {Arr(1, <<l, o>>) : l \in NumLeaves, o \in Objects(NumLeaves, 1, {1})}
Deep == Objects(Mixed, 1, {1})

Values == Leaves \cup Flat \cup Nested \cup Mixed \cup Deep

--------------------------------------------------------------------------------------------------------------------------------------------------------------------------------------------------------
(* Instances and their hook call sites *)

MemoInsts == {"M1", "M2"}       \* M1 calls useMemo, M2 calls useDeepMemo
CompInsts == {"W1"}             \* an instance of a memo-wrapped component
Insts == MemoInsts \cup CompInsts \cup {"App"}

\* the useRef calls of an instance, in call order
SitesOf(i) == IF i \in MemoInsts THEN {<<i, 1>>} ELSE {<<i, 1>>, <<i, 2>>}
Sites == UNION {SitesOf(i) : i \in Insts}

\* comparators a caller may pass as _equals (the last one is () => false)
Comparators == {"shallowEquals", "deepEquals", "never"}

Equals(eq, a, b) ==
    CASE eq = "shallowEquals" -> ShallowEquals(a, b)
      [] eq = "deepEquals" -> DeepEquals(a, b)
      [] eq = "never" -> FALSE

\* the comparator an instance compares with
EqOf(i) ==
    CASE i = "M2" -> "deepEquals"
      [] i \in CompInsts -> wEquals
      [] OTHER -> "shallowEquals"

\* values held by cells besides JavaScript values
Unset == [t |-> "unset"]
Entry(value, deps) == [t |-> "entry", value |-> value, deps |-> deps]
Result(i, k) == [t |-> "result", inst |-> i, k |-> k]
Element(i, k, props) == [t |-> "element", inst |-> i, k |-> k, props |-> props]
NoArg == [t |-> "none"]

\* The host state a hook runs on.  slots[s] is the identity of the cell
\* object the state slot of call site s holds (0: the slot is not yet
\* initialised); cells[s] is the .current of that cell.
Host == [slots |-> slots, cells |-> cells]

----------------------------------------------------------------------------
(* MutableCell *)

\* A useRef that returns a new cell { current: initialValue } every time
UseRefFresh(h, site, initialValue) ==
    [host |-> [slots |-> [h.slots EXCEPT ![site] = (@ % 2) + 1],
               cells |-> [h.cells EXCEPT ![site] = initialValue]],
     ref |-> site]

\* A useRef whose cell is shared by the same hook position of all instances
UseRefShared(h, site, initialValue) ==
    LET shared == <<"App", site[2]>>
    IN  IF h.slots[shared] = 0
        THEN [host |-> [slots |-> [h.slots EXCEPT ![shared] = 1],
                        cells |-> [h.cells EXCEPT ![shared] = initialValue]],
              ref |-> shared]
        ELSE [host |-> h, ref |-> shared]

\* const [ref] = useState({ current: initialValue }); return ref;
\* the slot keeps the object of the first evaluation, later ones are dropped
UseRef(h, site, initialValue) ==
    IF h.slots[site] = 0
    THEN [host |-> [slots |-> [h.slots EXCEPT ![site] = 1],
                    cells |-> [h.cells EXCEPT ![site] = initialValue]],
          ref |-> site]
    ELSE [host |-> h, ref |-> site]

\* ref.current
Current(h, ref) == h.cells[ref]

\* ref.current = v
SetCurrent(h, ref, v) == [h EXCEPT !.cells = [h.cells EXCEPT ![ref] = v]]

----------------------------------------------------------------------------
(* MemoizedValue *)

\* what an evaluation yields when factory() raises an error
Raised == [t |-> "raised"]

\* A useMemo that stores the entry for the new deps before invoking factory
UseMemoStoresFirst(h, site, made_, deps, equals) ==
    LET r == UseRef(h, site, Null)
        cur == Current(r.host, r.ref)
    IN  IF cur.t = "null" \/ ~Equals(equals, cur.deps, deps)
        THEN IF made_ = Raised
             THEN [host |-> SetCurrent(r.host, r.ref, Entry(Undefined, deps)),
                   calls |-> 1, ret |-> Raised]
             ELSE [host |-> SetCurrent(r.host, r.ref, Entry(made_, deps)),
                   calls |-> 1, ret |-> made_]
        ELSE [host |-> r.host, calls |-> 0, ret |-> cur.value]

\* A useMemo that compares the dependency lists by reference
UseMemoByReference(h, site, made_, deps, equals) ==
    LET r == UseRef(h, site, Null)
        cur == Current(r.host, r.ref)
    IN  IF cur.t = "null" \/ ~StrictEq(cur.deps, deps)
        THEN [host |-> SetCurrent(r.host, r.ref, Entry(made_, deps)),
              calls |-> 1, ret |-> made_]
        ELSE [host |-> r.host, calls |-> 0, ret |-> cur.value]

\* A useMemo that keeps the stored deps when it recomputes
UseMemoStaleDeps(h, site, made_, deps, equals) ==
    LET r == UseRef(h, site, Null)
        cur == Current(r.host, r.ref)
    IN  IF cur.t = "null"
        THEN [host |-> SetCurrent(r.host, r.ref, Entry(made_, deps)),
              calls |-> 1, ret |-> made_]
        ELSE IF ~Equals(equals, cur.deps, deps)
        THEN [host |-> SetCurrent(r.host, r.ref, Entry(made_, cur.deps)),
              calls |-> 1, ret |-> made_]
        ELSE [host |-> r.host, calls |-> 0, ret |-> cur.value]

\* A useMemo that never replaces the entry of its first evaluation
UseMemoKeepsFirst(h, site, made_, deps, equals) ==
    LET r == UseRef(h, site, Null)
        cur == Current(r.host, r.ref)
    IN  IF cur.t = "null"
        THEN [host |-> SetCurrent(r.host, r.ref, Entry(made_, deps)),
              calls |-> 1, ret |-> made_]
        ELSE IF ~Equals(equals, cur.deps, deps)
        THEN [host |-> r.host, calls |-> 1, ret |-> made_]
        ELSE [host |-> r.host, calls |-> 0, ret |-> cur.value]

\* useMemo(factory, deps, equals) at a call site; made_ is what factory()
\* returns if it is invoked (Raised: it raises an error), calls the number
\* of its invocations.  In ref.current = { value: factory(), deps } the
\* call comes before the assignment, so an error leaves ref.current alone
\* and propagates to the caller.
UseMemo(h, site, made_, deps, equals) ==
    LET r == UseRef(h, site, Null)
        cur == Current(r.host, r.ref)
    IN  IF cur.t = "null" \/ ~Equals(equals, cur.deps, deps)
        THEN IF made_ = Raised
             THEN [host |-> r.host, calls |-> 1, ret |-> Raised]
             ELSE [host |-> SetCurrent(r.host, r.ref, Entry(made_, deps)),
                   calls |-> 1, ret |-> made_]
        ELSE [host |-> r.host, calls |-> 0, ret |-> cur.value]

UseDeepMemo(h, site, made_, deps) == UseMemo(h, site, made_, deps, "deepEquals")

----------------------------------------------------------------------------
(* MemoizedComponent *)

\* A wrapper that renders on every invocation
MemoizedWrapperAlways(h, i, made_, props, equals) ==
    LET prevProps == UseRef(h, <<i, 1>>, props)
        memoizedComponent == UseRef(prevProps.host, <<i, 2>>, Null)
        h2 == memoizedComponent.host
    IN  [host |-> SetCurrent(SetCurrent(h2, prevProps.ref, props),
                             memoizedComponent.ref, made_),
         calls |-> 1, ret |-> made_]

\* A wrapper that renders only when both conditions hold (&& for ||)
MemoizedWrapperAnd(h, i, made_, props, equals) ==
    LET prevProps == UseRef(h, <<i, 1>>, props)
        memoizedComponent == UseRef(prevProps.host, <<i, 2>>, Null)
        h2 == memoizedComponent.host
    IN  IF /\ ~Equals(equals, Current(h2, prevProps.ref), props)
           /\ Current(h2, memoizedComponent.ref).t = "null"
        THEN [host |-> SetCurrent(SetCurrent(h2, prevProps.ref, props),
                                  memoizedComponent.ref, made_),
              calls |-> 1, ret |-> made_]
        ELSE [host |-> h2, calls |-> 0,
              ret |-> Current(h2, memoizedComponent.ref)]

\* A wrapper that stores the received props in the unchanged branch as well
MemoizedWrapperStoresProps(h, i, made_, props, equals) ==
    LET prevProps == UseRef(h, <<i, 1>>, props)
        memoizedComponent == UseRef(prevProps.host, <<i, 2>>, Null)
        h2 == memoizedComponent.host
    IN  IF \/ ~Equals(equals, Current(h2, prevProps.ref), props)
           \/ Current(h2, memoizedComponent.ref).t = "null"
        THEN [host |-> SetCurrent(SetCurrent(h2, prevProps.ref, props),
                                  memoizedComponent.ref, made_),
              calls |-> 1, ret |-> made_]
        ELSE [host |-> SetCurrent(h2, prevProps.ref, props), calls |-> 0,
              ret |-> Current(h2, memoizedComponent.ref)]

\* MemoizedWrapper(props) of instance i of memo(Component, _equals); made_
\* is what React.createElement(Component, props) returns if it is invoked,
\* calls the number of its invocations
MemoizedWrapper(h, i, made_, props, equals) ==
    LET prevProps == UseRef(h, <<i, 1>>, props)
        memoizedComponent == UseRef(prevProps.host, <<i, 2>>, Null)
        h2 == memoizedComponent.host
    IN  IF \/ ~Equals(equals, Current(h2, prevProps.ref), props)
           \/ Current(h2, memoizedComponent.ref).t = "null"
        THEN [host |-> SetCurrent(SetCurrent(h2, prevProps.ref, props),
                                  memoizedComponent.ref, made_),
              calls |-> 1, ret |-> made_]
        ELSE [host |-> h2, calls |-> 0,
              ret |-> Current(h2, memoizedComponent.ref)]

----------------------------------------------------------------------------
(* Inputs of the hooks *)

\* dependency lists: [1] twice, [2], [NaN], and lists of one object
DepsLists ==
    {Arr(1, <<Num(1)>>), Arr(2, <<Num(1)>>), Arr(1, <<Num(2)>>),
     Arr(1, <<NaN>>),
     Arr(1, <<Obj(1, <<P("x", Num(1))>>)>>),
     Arr(1, <<Obj(2, <<P("x", Num(1))>>)>>),
     Arr(1, <<Obj(1, <<P("x", Num(1)), P("y", Num(1))>>)>>),
     Arr(1, <<Obj(1, <<P("x", Num(1)), P("y", Num(2))>>)>>)}

\* props objects: {x: 1} twice, {x: 2}, {}, {x: 1, y: 2}, {x: undefined},
\* and {x: [1]} with two arrays
PropsObjects ==
    {Obj(1, <<P("x", Num(1))>>), Obj(2, <<P("x", Num(1))>>),
     Obj(1, <<P("x", Num(2))>>), Obj(1, <<>>),
     Obj(1, <<P("x", Num(1)), P("y", Num(2))>>),
     Obj(1, <<P("x", Undefined)>>),
     Obj(1, <<P("x", Arr(1, <<Num(1)>>))>>),
     Obj(1, <<P("x", Arr(2, <<Num(1)>>))>>)}

----------------------------------------------------------------------------
(* Contexts and the hooks that read them *)

Contexts == {"ThemeContext", "UserContext", "NotificationContext"}
ContextHooks == {"useTheme", "useUser", "useNotification"}

\* a string and a function value
Str(s) == [t |-> "str", s |-> s]
Fn(name) == [t |-> "function", name |-> name]

\* the user login sets, and a notification list of k notifications
User == [t |-> "obj", name |-> "User"]
Notifications(k) == [t |-> "arr", length |-> k]

\* themeContextValue: { theme, toggleTheme }
ThemeContextValues ==
    {Obj(1, <<P("theme", Str(th)), P("toggleTheme", Fn("toggleTheme"))>>) :
        th \in {"light", "dark"}}

\* userContextValue: { user, login, logout }
UserContextValues ==
    {Obj(1, <<P("user", u), P("login", Fn("login")), P("logout", Fn("logout"))>>) :
        u \in {Null, User}}

\* notificationContextValue: { notifications, addNotification, removeNotification }
NotificationContextValues ==
    {Obj(1, <<P("notifications", Notifications(k)),
              P("addNotification", Fn("addNotification")),
              P("removeNotification", Fn("removeNotification"))>>) :
        k \in 0..MaxNotifications}

\* what a Provider of a context may be given: a context value or, as the
\* declared type allows, undefined
ProvidedValues(c) ==
    (CASE c = "ThemeContext" -> ThemeContextValues
       [] c = "UserContext" -> UserContextValues
       [] c = "NotificationContext" -> NotificationContextValues)
    \cup {Undefined}

NoProvider == [t |-> "none"]
Provider(value) == [t |-> "provider", value |-> value]

\* createContext(undefined): the value read where no Provider is above
DefaultValue == Undefined

\* useContext(Context) under the Provider state p
UseContext(p) == IF p.t = "provider" THEN p.value ELSE DefaultValue

\* !v is false
Truthy(v) ==
    CASE v.t \in {"undefined", "null", "nan"} -> FALSE
      [] v.t = "num" -> v.n # 0
      [] OTHER -> TRUE

Thrown(message) == [threw |-> TRUE, error |-> message, ret |-> Undefined]
Returned(value) == [threw |-> FALSE, error |-> "", ret |-> value]

\* Context hooks that return whatever useContext gave them
UseThemeUnchecked(context) == Returned(context)
UseUserUnchecked(context) == Returned(context)
UseNotificationUnchecked(context) == Returned(context)

\* the body of useTheme after const context = useContext(ThemeContext)
UseTheme(context) ==
    IF ~Truthy(context)
    THEN Thrown("useTheme must be used within ThemeProvider")
    ELSE Returned(context)

UseUser(context) ==
    IF ~Truthy(context)
    THEN Thrown("useUser must be used within UserProvider")
    ELSE Returned(context)

UseNotification(context) ==
    IF ~Truthy(context)
    THEN Thrown("useNotification must be used within NotificationProvider")
    ELSE Returned(context)

NoHookCall == [called |-> FALSE]
HookCall(under, outcome) == [called |-> TRUE, under |-> under, outcome |-> outcome]

----------------------------------------------------------------------------
(* Evaluations of the instances by the host's render pass *)

NoCall == [fn |-> "none", res |-> FALSE]

NoEval == [kind |-> "none", inst |-> "", arg |-> NoArg, calls |-> 0,
           ret |-> Unset]

NoApp == [renders |-> 0, theme |-> "light", user |-> FALSE,
          notifications |-> 0, items |-> Unset, arrays |-> 0]

InitHooks ==
    /\ slots = [s \in Sites |-> 0]
    /\ cells = [s \in Sites |-> Unset]
    /\ made = [i \in Insts |-> 0]
    /\ last = NoEval
    /\ app = NoApp
    /\ genCalls = 0
    /\ providers = [c \in Contexts |-> NoProvider]
    /\ hookRes = [h \in ContextHooks |-> NoHookCall]

Commit(kind, i, arg, r) ==
    /\ r.calls = 1 => made[i] < MaxCalls
    /\ slots' = r.host.slots
    /\ cells' = r.host.cells
    /\ made' = [made EXCEPT ![i] = @ + r.calls]
    /\ last' = [kind |-> kind, inst |-> i, arg |-> arg, calls |-> r.calls,
                ret |-> r.ret]
    /\ UNCHANGED <<eqVars, wEquals, appVars, ctxVars>>

\* a component instance calling useMemo(factory, deps) is evaluated
EvalUseMemo(deps) ==
    Commit("useMemo", "M1", deps,
           UseMemo(Host, <<"M1", 1>>, Result("M1", made["M1"] + 1), deps,
                   "shallowEquals"))

\* a component instance calling useDeepMemo(factory, deps) is evaluated
EvalUseDeepMemo(deps) ==
    Commit("useMemo", "M2", deps,
           UseDeepMemo(Host, <<"M2", 1>>, Result("M2", made["M2"] + 1), deps))

\* the host invokes the memo-wrapped component instance with props
EvalMemo(i, props) ==
    Commit("memo", i, props,
           MemoizedWrapper(Host, i, Element(i, made[i] + 1, props), props,
                           EqOf(i)))

Init ==
    /\ eqA = Undefined
    /\ eqB = Undefined
    /\ eqRes = NoCall
    /\ wEquals \in Comparators
    /\ InitHooks

NextMemo ==
    \/ \E deps \in DepsLists : EvalUseMemo(deps)
    \/ \E deps \in DepsLists : EvalUseDeepMemo(deps)

NextComp == \E i \in CompInsts, props \in PropsObjects : EvalMemo(i, props)

Next ==
    \/ \E deps \in DepsLists : EvalUseMemo(deps)
    \/ \E deps \in DepsLists : EvalUseDeepMemo(deps)
    \/ \E i \in CompInsts, props \in PropsObjects : EvalMemo(i, props)

\* An evaluation in which factory raises an error if it is invoked.  The
\* error ends the render; when it was the first render of the instance the
\* host may drop the state slot it had just initialised (discard) or keep it.
CommitRaising(i, arg, r, discard) ==
    /\ slots' = IF discard /\ r.ret = Raised THEN slots ELSE r.host.slots
    /\ cells' = IF discard /\ r.ret = Raised THEN cells ELSE r.host.cells
    /\ last' = [kind |-> "useMemo", inst |-> i, arg |-> arg, calls |-> r.calls,
                ret |-> r.ret]
    /\ UNCHANGED <<eqVars, made, wEquals, appVars, ctxVars>>

EvalUseMemoRaising(deps, discard) ==
    /\ discard => slots[<<"M1", 1>>] = 0
    /\ CommitRaising("M1", deps,
                     UseMemo(Host, <<"M1", 1>>, Raised, deps, "shallowEquals"),
                     discard)

EvalUseDeepMemoRaising(deps, discard) ==
    /\ discard => slots[<<"M2", 1>>] = 0
    /\ CommitRaising("M2", deps, UseDeepMemo(Host, <<"M2", 1>>, Raised, deps),
                     discard)

NextRaising ==
    \/ \E deps \in DepsLists : EvalUseMemo(deps)
    \/ \E deps \in DepsLists : EvalUseDeepMemo(deps)
    \/ \E deps \in DepsLists, discard \in BOOLEAN :
            EvalUseMemoRaising(deps, discard)
    \/ \E deps \in DepsLists, discard \in BOOLEAN :
            EvalUseDeepMemoRaising(deps, discard)

\* every interleaving of evaluations of the three instances
Spec == Init /\ [][Next]_vars

\* useMemo and useDeepMemo instances whose factory may raise an error
SpecRaising == Init /\ [][NextRaising]_vars

\* the instances of useMemo and useDeepMemo alone
SpecMemo == Init /\ [][NextMemo]_vars

\* the memo-wrapped component alone
SpecComp == Init /\ [][NextComp]_vars

----------------------------------------------------------------------------
(* App *)

\* the array generateItems(1000) or addItems builds; k tells the arrays
\* apart, the 1000 items are not modelled
ItemsArray(k) == [t |-> "arr", n |-> 1000, id |-> k, elems |-> <<>>]

\* addItems: React.useCallback(..., []) returns the same function every render
AddItemsFn == [t |-> "function", n |-> 0, id |-> 1, elems |-> <<>>]

\* One render of App with the state st of its useState slots.  The array
\* and object literals of a render are new objects; the render number tells
\* them apart.
RenderApp(st) ==
    LET n == st.renders + 1
        initialItems ==
            UseMemo(Host, <<"App", 1>>, ItemsArray(st.arrays + 1),
                    Arr(n, <<>>), "shallowEquals")
        items == IF st.renders = 0 THEN initialItems.ret ELSE st.items
        itemListProps ==
            UseMemo(initialItems.host, <<"App", 2>>,
                    Obj(n, <<P("items", items), P("onAddItemsClick", AddItemsFn)>>),
                    Arr(n, <<items, AddItemsFn>>), "shallowEquals")
    IN  /\ st.renders < MaxRenders
        /\ slots' = itemListProps.host.slots
        /\ cells' = itemListProps.host.cells
        /\ genCalls' = genCalls + initialItems.calls
        /\ app' = [st EXCEPT !.renders = n, !.items = items,
                             !.arrays = @ + initialItems.calls]
        /\ last' = [kind |-> "app", inst |-> "App", arg |-> Arr(n, <<>>),
                    calls |-> initialItems.calls, ret |-> itemListProps.ret]
        /\ UNCHANGED <<eqVars, wEquals, made, ctxVars>>

\* the host mounts App: its first render
MountApp ==
    /\ app.renders = 0
    /\ RenderApp(app)

\* toggleTheme: setTheme(prev => prev === "light" ? "dark" : "light")
ToggleTheme ==
    /\ app.renders > 0
    /\ RenderApp([app EXCEPT !.theme = IF @ = "light" THEN "dark" ELSE "light"])

\* addItems: setItems(prev => [...prev, ...1000 new items])
AddItems ==
    /\ app.renders > 0
    /\ RenderApp([app EXCEPT !.items = ItemsArray(app.arrays + 1),
                             !.arrays = @ + 1])

\* addNotification: setNotifications(prev => [...prev, newNotification])
AddNotification ==
    /\ app.renders > 0
    /\ app.notifications < MaxNotifications
    /\ RenderApp([app EXCEPT !.notifications = @ + 1])

\* login: setUser({...}) and addNotification(...)
Login ==
    /\ app.renders > 0
    /\ app.notifications < MaxNotifications
    /\ RenderApp([app EXCEPT !.user = TRUE, !.notifications = @ + 1])

\* logout: setUser(null) and addNotification(...)
Logout ==
    /\ app.renders > 0
    /\ app.notifications < MaxNotifications
    /\ RenderApp([app EXCEPT !.user = FALSE, !.notifications = @ + 1])

\* removeNotification: setNotifications(prev => prev.filter(...))
RemoveNotification ==
    /\ app.renders > 0
    /\ app.notifications > 0
    /\ RenderApp([app EXCEPT !.notifications = @ - 1])

NextApp ==
    \/ MountApp
    \/ ToggleTheme
    \/ AddItems
    \/ AddNotification
    \/ Login
    \/ Logout
    \/ RemoveNotification

InitApp ==
    /\ eqA = Undefined
    /\ eqB = Undefined
    /\ eqRes = NoCall
    /\ wEquals = "shallowEquals"
    /\ InitHooks

SpecApp == InitApp /\ [][NextApp]_vars

----------------------------------------------------------------------
(* Calls of the comparators on arbitrary arguments *)

InitEq ==
    /\ eqA \in Values
    /\ eqB = Undefined
    /\ eqRes = NoCall
    /\ wEquals = "shallowEquals"
    /\ InitHooks

CallShallowEquals(b) ==
    /\ eqRes.fn = "none"
    /\ eqB' = b
    /\ eqRes' = [fn |-> "shallowEquals", res |-> ShallowEquals(eqA, b)]
    /\ UNCHANGED <<eqA, hookVars, appVars, ctxVars>>

CallDeepEquals(b) ==
    /\ eqRes.fn = "none"
    /\ eqB' = b
    /\ eqRes' = [fn |-> "deepEquals", res |-> DeepEquals(eqA, b)]
    /\ UNCHANGED <<eqA, hookVars, appVars, ctxVars>>

NextEq ==
    \/ \E b \in Values : CallShallowEquals(b)
    \/ \E b \in Values : CallDeepEquals(b)

SpecEq == InitEq /\ [][NextEq]_vars

----------------------------------------------------------------------------
(* Components under Providers calling the context hooks *)

\* a tree is rendered with <Context.Provider value={value}> above the caller
RenderProvider(c, value) ==
    /\ providers' = [providers EXCEPT ![c] = Provider(value)]
    /\ UNCHANGED <<eqVars, hookVars, appVars, hookRes>>

\* a tree is rendered with no Provider of the context above the caller
RenderWithoutProvider(c) ==
    /\ providers[c] # NoProvider
    /\ providers' = [providers EXCEPT ![c] = NoProvider]
    /\ UNCHANGED <<eqVars, hookVars, appVars, hookRes>>

CallUseTheme ==
    LET p == providers["ThemeContext"]
    IN  /\ hookRes' = [hookRes EXCEPT
                         !["useTheme"] = HookCall(p, UseTheme(UseContext(p)))]
        /\ UNCHANGED <<eqVars, hookVars, appVars, providers>>

CallUseUser ==
    LET p == providers["UserContext"]
    IN  /\ hookRes' = [hookRes EXCEPT
                         !["useUser"] = HookCall(p, UseUser(UseContext(p)))]
        /\ UNCHANGED <<eqVars, hookVars, appVars, providers>>

CallUseNotification ==
    LET p == providers["NotificationContext"]
    IN  /\ hookRes' = [hookRes EXCEPT
                         !["useNotification"] =
                            HookCall(p, UseNotification(UseContext(p)))]
        /\ UNCHANGED <<eqVars, hookVars, appVars, providers>>

NextCtx ==
    \/ \E c \in Contexts : \E value \in ProvidedValues(c) : RenderProvider(c, value)
    \/ \E c \in Contexts : RenderWithoutProvider(c)
    \/ CallUseTheme
    \/ CallUseUser
    \/ CallUseNotification

SpecCtx == InitApp /\ [][NextCtx]_vars

----------------------------------------------------------------------------
(* Properties *)

\* the cache entry of a useMemo instance and the cells of a memo instance
EntryOf(i) == cells[<<i, 1>>]
PropsOf(i) == cells[<<i, 1>>]
OutputOf(i) == cells[<<i, 2>>]

\* C1: when an instance of useMemo / useDeepMemo holds an entry and the new
\* deps are judged equal to the stored deps by its comparator, the
\* evaluation does not invoke factory, returns the stored value and leaves
\* the entry as it is; this holds of every such evaluation, however many
\* follow one another.
C1_CacheHit ==
    [][\A i \in MemoInsts :
        (/\ last'.inst = i
         /\ slots[<<i, 1>>] # 0
         /\ EntryOf(i).t = "entry"
         /\ Equals(EqOf(i), EntryOf(i).deps, last'.arg))
        => (/\ last'.calls = 0
            /\ made'[i] = made[i]
            /\ last'.ret = EntryOf(i).value
            /\ cells'[<<i, 1>>] = EntryOf(i))]_vars

\* a hit on a dependency list that is another array than the stored one
C1_Witness ==
    \E i \in MemoInsts :
        /\ last.inst = i
        /\ last.calls = 0
        /\ EntryOf(i).t = "entry"
        /\ EntryOf(i).deps # last.arg
        /\ last.ret = EntryOf(i).value

\* C2: on the first evaluation of an instance, and on every later one whose
\* deps are judged not equal to the stored deps, factory is invoked exactly
\* once, the entry becomes {new value, new deps} and the new value is
\* returned; no evaluation invokes factory more than once.
C2_CacheMiss ==
    [][\A i \in MemoInsts :
        last'.inst = i =>
            /\ last'.calls \in {0, 1}
            /\ made'[i] = made[i] + last'.calls
            /\ (\/ slots[<<i, 1>>] = 0
                \/ EntryOf(i).t # "entry"
                \/ ~Equals(EqOf(i), EntryOf(i).deps, last'.arg))
               => (/\ last'.calls = 1
                   /\ last'.ret = Result(i, made'[i])
                   /\ cells'[<<i, 1>>] = Entry(last'.ret, last'.arg))]_vars

\* an instance has recomputed: its second value is stored with the new deps
C2_Witness ==
    \E i \in MemoInsts :
        /\ last.inst = i
        /\ last.calls = 1
        /\ made[i] = 2
        /\ EntryOf(i) = Entry(Result(i, 2), last.arg)

\* C3: whether an evaluation of a useMemo / useDeepMemo instance recomputes
\* is decided by comparing its deps with the deps of the evaluation of that
\* instance just before it: it recomputes iff the comparator judges the two
\* not equal.
C3_PrecedingDepsDecide ==
    [][\A i \in MemoInsts :
        (last.inst = i /\ last'.inst = i)
        => (last'.calls = 1 <=> ~Equals(EqOf(i), last.arg, last'.arg))]_vars

\* C4: once a memo instance has produced an output, an invocation whose
\* props are judged equal to the stored props returns that output, creates
\* no element and leaves the stored output as it is.
C4_RenderSkip ==
    [][\A i \in CompInsts :
        (/\ last'.inst = i
         /\ slots[<<i, 2>>] # 0
         /\ OutputOf(i).t = "element"
         /\ Equals(EqOf(i), PropsOf(i), last'.arg))
        => (/\ last'.calls = 0
            /\ made'[i] = made[i]
            /\ last'.ret = OutputOf(i)
            /\ cells'[<<i, 2>>] = OutputOf(i))]_vars

\* a skipped render under shallowEquals for a props object that is not the
\* stored one
C4_Witness ==
    /\ last.kind = "memo"
    /\ wEquals = "shallowEquals"
    /\ last.calls = 0
    /\ PropsOf(last.inst) # last.arg
    /\ last.ret = OutputOf(last.inst)
    /\ last.ret.t = "element"

\* C5: on the first invocation of a memo instance, whatever the comparator
\* returns, and on every later invocation whose props are judged not equal
\* to the stored props, the wrapper creates one new element from the new
\* props, stores the new props and the new element, and returns the element.
C5_ReRender ==
    [][\A i \in CompInsts :
        (/\ last'.inst = i
         /\ \/ slots[<<i, 2>>] = 0
            \/ OutputOf(i).t = "null"
            \/ ~Equals(EqOf(i), PropsOf(i), last'.arg))
        => (/\ last'.calls = 1
            /\ made'[i] = made[i] + 1
            /\ last'.ret = Element(i, made'[i], last'.arg)
            /\ cells'[<<i, 1>>] = last'.arg
            /\ cells'[<<i, 2>>] = last'.ret)]_vars

\* a second element has been made, from props the comparator judged changed
C5_Witness ==
    /\ last.kind = "memo"
    /\ wEquals = "shallowEquals"
    /\ last.calls = 1
    /\ made[last.inst] = 2
    /\ OutputOf(last.inst) = Element(last.inst, 2, last.arg)

\* C6: the slot of a useRef call site keeps the cell of the first
\* evaluation, and .current of that cell changes only when the primitive
\* owning it writes it (the entry, the props or the element it stores): a
\* re-evaluation passing another initialValue does not reset it.
C6_CellPersists ==
    [][\A s \in Sites :
        slots[s] # 0 =>
            /\ slots'[s] = slots[s]
            /\ cells'[s] # cells[s] =>
                /\ last'.inst = s[1]
                /\ last'.calls = 1
                /\ cells'[s] \in {last'.arg, last'.ret,
                                  Entry(last'.ret, last'.arg)}]_vars

\* after two renders a memo instance is invoked with another props object
\* (the initialValue of its useRef) and the cell still holds the stored one
C6_Witness ==
    /\ last.kind = "memo"
    /\ made[last.inst] = 2
    /\ last.calls = 0
    /\ slots[<<last.inst, 1>>] = 1
    /\ PropsOf(last.inst) # last.arg
    /\ OutputOf(last.inst) = Element(last.inst, 2, PropsOf(last.inst))

\* C7: however often App is rendered again, generateItems has been invoked
\* exactly once, on the first render.
C7_GenerateItemsOnce ==
    /\ app.renders = 0 => genCalls = 0
    /\ app.renders > 0 => genCalls = 1

\* App was rendered again after a theme toggle, a login and added items
C7_Witness ==
    /\ app.renders >= 4
    /\ app.theme = "dark"
    /\ app.user
    /\ app.arrays >= 2
    /\ genCalls = 1

\* C8: an evaluation of one instance leaves the slots and cells of every
\* other instance as they are, and whether it recomputes is decided by its
\* own entry alone, under every interleaving of the instances.
C8_OwnEntryOnly ==
    [][/\ \A s \in Sites :
            s[1] # last'.inst => slots'[s] = slots[s] /\ cells'[s] = cells[s]
       /\ \A i \in MemoInsts :
            last'.inst = i =>
                (last'.calls = 0 <=>
                    /\ slots[<<i, 1>>] # 0
                    /\ Equals(EqOf(i), EntryOf(i).deps, last'.arg))
       /\ \A i \in CompInsts :
            last'.inst = i =>
                (last'.calls = 0 <=>
                    /\ slots[<<i, 2>>] # 0
                    /\ Equals(EqOf(i), PropsOf(i), last'.arg))]_vars

\* all three instances hold an entry, each made by its own evaluations, and
\* the last evaluation was served from one of them
C8_Witness ==
    /\ \A i \in MemoInsts : slots[<<i, 1>>] # 0 /\ EntryOf(i).value.inst = i
    /\ \A i \in CompInsts : slots[<<i, 2>>] # 0 /\ OutputOf(i).inst = i
    /\ made["M1"] = 2 /\ made["M2"] = 1 /\ made["W1"] = 1
    /\ last.inst = "M1"
    /\ last.calls = 0

IsPlainObject(v) == v.t = "obj"
KeySet(o) == {o.elems[i].k : i \in 1..Len(o.elems)}

\* C9: for plain objects a and b with the same key set, shallowEquals(a, b)
\* is true when every key holds === values in both, and false for two
\* objects that differ in the reference of a value; a nested array that is
\* structurally equal but another reference makes it false.
C9_ShallowPlainObjects ==
    (/\ eqRes.fn = "shallowEquals"
     /\ IsPlainObject(eqA) /\ IsPlainObject(eqB)
     /\ KeySet(eqA) = KeySet(eqB))
    => LET same == \A k \in KeySet(eqA) : StrictEq(Get(eqA, k), Get(eqB, k))
       IN  /\ same => eqRes.res
           /\ (eqA # eqB /\ ~same) => ~eqRes.res

\* {x: [n]} against {x: [n]} with another array of the same content
C9_Witness ==
    /\ eqRes.fn = "shallowEquals"
    /\ IsPlainObject(eqA) /\ IsPlainObject(eqB)
    /\ KeySet(eqA) = {"x"} /\ KeySet(eqB) = {"x"}
    /\ IsArray(Get(eqA, "x")) /\ IsArray(Get(eqB, "x"))
    /\ Get(eqA, "x") # Get(eqB, "x")
    /\ Get(eqA, "x").elems = Get(eqB, "x").elems
    /\ Len(Get(eqA, "x").elems) = 1
    /\ ~eqRes.res

IsLeaf(v) == v.t \notin {"obj", "arr"}

RECURSIVE SameStructure(_, _)
\* a and b are built alike: the same containers with the same keys in the
\* same order, leaves in the same places
SameStructure(a, b) ==
    IF IsLeaf(a) \/ IsLeaf(b) THEN IsLeaf(a) /\ IsLeaf(b)
    ELSE /\ a.t = b.t
         /\ Keys(a) = Keys(b)
         /\ \A i \in 1..Len(a.elems) : SameStructure(a.elems[i].v, b.elems[i].v)

RECURSIVE LeavesEqual(_, _)
\* every leaf of a is the same value as the leaf of b in its place (NaN
\* counted the same value as NaN)
LeavesEqual(a, b) ==
    IF IsLeaf(a) THEN a = b
    ELSE \A i \in 1..Len(a.elems) : LeavesEqual(a.elems[i].v, b.elems[i].v)

\* C10: for a and b of the same structure, deepEquals(a, b) is true iff
\* every pair of corresponding leaves is equal.
C10_DeepLeaves ==
    (eqRes.fn = "deepEquals" /\ SameStructure(eqA, eqB))
    => (eqRes.res <=> LeavesEqual(eqA, eqB))

\* C11: for every value v (a primitive, null, undefined and NaN included,
\* an object, an array), shallowEquals(v, v) and deepEquals(v, v) are true.
C11_Reflexive ==
    (eqRes.fn # "none" /\ eqB = eqA) => eqRes.res

ContextOf(h) ==
    CASE h = "useTheme" -> "ThemeContext"
      [] h = "useUser" -> "UserContext"
      [] h = "useNotification" -> "NotificationContext"

\* C12: a call of useTheme, useUser or useNotification where its context
\* has no provider value (no Provider above, or one given undefined) raises
\* an error; where a provider value is present, the call raises nothing and
\* returns that value itself.
C12_ContextHooks ==
    \A h \in ContextHooks :
        hookRes[h].called =>
            LET under == hookRes[h].under
                outcome == hookRes[h].outcome
            IN  IF under = NoProvider \/ under.value = Undefined
                THEN outcome.threw
                ELSE ~outcome.threw /\ outcome.ret = under.value

\* useTheme was called with no Provider above and raised, useUser under a
\* Provider given undefined and raised, useNotification under a Provider
\* with a value and returned it
C12_Witness ==
    /\ hookRes["useTheme"] =
            HookCall(NoProvider, Thrown("useTheme must be used within ThemeProvider"))
    /\ hookRes["useUser"].called
    /\ hookRes["useUser"].under = Provider(Undefined)
    /\ hookRes["useUser"].outcome.threw
    /\ hookRes["useNotification"].called
    /\ hookRes["useNotification"].under.t = "provider"
    /\ hookRes["useNotification"].under.value \in NotificationContextValues
    /\ hookRes["useNotification"].outcome =
            Returned(hookRes["useNotification"].under.value)

\* C13: when a memo instance holds an output and the received props are
\* judged equal to the stored props, the invocation modifies neither the
\* stored props nor the stored output; the stored props are therefore always
\* the props the stored output was rendered from, and it is against them,
\* not against the props received last, that an invocation is compared.
C13_UnchangedBranchFrame ==
    [][\A i \in CompInsts :
        (/\ last'.inst = i
         /\ slots[<<i, 2>>] # 0
         /\ OutputOf(i).t = "element")
        => /\ PropsOf(i) = OutputOf(i).props
           /\ (last'.calls = 0 <=> Equals(EqOf(i), OutputOf(i).props, last'.arg))
           /\ Equals(EqOf(i), PropsOf(i), last'.arg)
                => (/\ cells'[<<i, 1>>] = PropsOf(i)
                    /\ cells'[<<i, 2>>] = OutputOf(i))
           /\ cells'[<<i, 1>>] = cells'[<<i, 2>>].props]_vars

\* under deepEquals the props {x: 1, y: 2} were judged equal to the stored
\* {x: 1}: the render was skipped and {x: 1} is still what is stored
C13_Witness ==
    /\ last.kind = "memo"
    /\ wEquals = "deepEquals"
    /\ last.calls = 0
    /\ last.arg = Obj(1, <<P("x", Num(1)), P("y", Num(2))>>)
    /\ PropsOf(last.inst) \in {Obj(1, <<P("x", Num(1))>>), Obj(2, <<P("x", Num(1))>>)}
    /\ OutputOf(last.inst).props = PropsOf(last.inst)

\* C14: for plain objects a and b, deepEquals(a, b) is true whenever every
\* key of a holds a value deep-equal to the value b holds under it, also
\* when b has keys a lacks; called with the object that has the additional
\* keys first, it is false.
C14_ExtraKeysAsymmetry ==
    (eqRes.fn = "deepEquals" /\ IsPlainObject(eqA) /\ IsPlainObject(eqB))
    => /\ (\A k \in KeySet(eqA) : DeepEquals(Get(eqA, k), Get(eqB, k)))
            => eqRes.res
       /\ (/\ KeySet(eqB) \subseteq KeySet(eqA)
           /\ KeySet(eqB) # KeySet(eqA)
           /\ \A k \in KeySet(eqB) : DeepEquals(Get(eqB, k), Get(eqA, k)))
            => ~eqRes.res

\* C15: shallowEquals(a, b) is the same as shallowEquals(b, a) for all
\* values a and b, and when it is true of two objects (plain objects or
\* arrays, values undefined included) the two have the same set of keys.
C15_ShallowSymmetricKeyExact ==
    eqRes.fn = "shallowEquals"
    => /\ eqRes.res = ShallowEquals(eqB, eqA)
       /\ (/\ eqRes.res
           /\ eqA.t \in {"obj", "arr"}
           /\ eqB.t \in {"obj", "arr"})
            => KeySet(eqA) = KeySet(eqB)

\* C16: after every evaluation of a useMemo / useDeepMemo instance its cell
\* holds one entry; the value of the entry is the result of the latest
\* factory invocation of the instance, its deps are the deps object of the
\* evaluation that made that invocation (an evaluation that does not invoke
\* factory leaves them), and the evaluation returns the stored value.
C16_SingleSlot ==
    [][\A i \in MemoInsts :
        last'.inst = i =>
            LET e == cells'[<<i, 1>>]
            IN  /\ slots'[<<i, 1>>] # 0
                /\ e.t = "entry"
                /\ made'[i] >= 1
                /\ e.value = Result(i, made'[i])
                /\ last'.ret = e.value
                /\ last'.calls = 1 => e.deps = last'.arg
                /\ last'.calls = 0 => e.deps = EntryOf(i).deps]_vars

\* the entry holds the second result with the deps it was made for, and the
\* last evaluation, passing another deps object, was served from it
C16_Witness ==
    \E i \in MemoInsts :
        /\ last.inst = i
        /\ last.calls = 0
        /\ made[i] = 2
        /\ EntryOf(i).value = Result(i, 2)
        /\ last.ret = Result(i, 2)
        /\ EntryOf(i).deps # last.arg
        /\ EntryOf(i).deps \in DepsLists

\* the instance holds no entry: its cell does not exist or holds null
Absent(i) == slots[<<i, 1>>] = 0 \/ cells[<<i, 1>>] = Null

\* C17: when factory raises an error during an evaluation of a useMemo /
\* useDeepMemo instance, the entry of the instance is as it was before the
\* evaluation (absent on a first evaluation, else the previous value and
\* deps), and the next evaluation with the same deps invokes factory again.
C17_RaisingFactory ==
    [][\A i \in MemoInsts :
        /\ (last'.inst = i /\ last'.ret = Raised)
            => /\ last'.calls = 1
               /\ made'[i] = made[i]
               /\ IF Absent(i)
                  THEN slots'[<<i, 1>>] = 0 \/ cells'[<<i, 1>>] = Null
                  ELSE /\ slots'[<<i, 1>>] = slots[<<i, 1>>]
                       /\ cells'[<<i, 1>>] = EntryOf(i)
        /\ (last.inst = i /\ last.ret = Raised /\ last'.inst = i
                /\ last'.arg = last.arg)
            => last'.calls = 1]_vars

\* factory raised while recomputing for changed deps: the entry still holds
\* the first value with the deps it was made for
C17_Witness ==
    \E i \in MemoInsts :
        /\ last.inst = i
        /\ last.ret = Raised
        /\ made[i] = 1
        /\ EntryOf(i).t = "entry"
        /\ EntryOf(i).value = Result(i, 1)
        /\ ~Equals(EqOf(i), EntryOf(i).deps, last.arg)

====
